---- MODULE Spec2Model ----
(***************************************************************************)
(* Model of scripts/markitdown_worker.py: a worker that reads file paths   *)
(* from standard input, converts each with MarkItDown and writes the text  *)
(* followed by a NUL to standard output.                                   *)
(*                                                                         *)
(* Strings are sequences of one-character strings.  One action per         *)
(* statement of the script; pc names the statement about to run.           *)
(***************************************************************************)
EXTENDS Naturals, Sequences, FiniteSets

\* ---------------------------------------------------------------- bounds
\* Largest number of lines on standard input.
MaxLines == 2

\* ------------------------------------------------------------ characters
NL  == "\n"
SP  == " "
NUL == "NUL"

\* str.strip() with no argument removes these from both ends.
Whitespace == {SP, NL}

\* Lines as `for line in sys.stdin` yields them: a line keeps its newline;
\* only the last line of the stream may lack one.
TerminatedLines ==
    { <<"a", NL>>, <<SP, "b", SP, NL>>, <<SP, NL>>, <<NL>> }
UnterminatedLines == { <<"a", SP, "b">> }
Lines == TerminatedLines \cup UnterminatedLines

\* What result.text_content may be: any text, the empty text and text that
\* itself holds the NUL character included.
Texts == { <<>>, <<"x">>, <<"y", NUL>> }

\* Exceptions the library call may raise: one below Exception, one that is
\* a BaseException only (KeyboardInterrupt, SystemExit).
ConvertRaises == {"ConversionError", "KeyboardInterrupt"}
\* What a write to or a flush of sys.stdout raises (BrokenPipeError,
\* UnicodeEncodeError): subclasses of Exception.
WriteRaises == "OSError"
ExceptionSubclasses == {"ConversionError", "OSError", "ImportError",
                        "CalledProcessError"}

NoValue == "unset"
\* A name of string type that no statement has bound yet.
Unbound == << "unbound" >>

VARIABLES
    pc,              \* the statement about to run
    importable,      \* environment: markitdown can be imported
    installInvoked,  \* subprocess.check_call([... pip install ...]) was run
    sys_stderr,      \* what the name sys.stderr is bound to
    environ,         \* os.environ["PYTHONWARNINGS"]
    converter,       \* number of MarkItDown() instances constructed
    stdin,           \* the lines of standard input
    pos,             \* number of lines the for loop has taken from stdin
    line,            \* loop variable
    file_path,       \* line.strip()
    result,          \* result.text_content of the current iteration
    e,               \* the exception in flight
    outBuf,          \* sys.stdout: characters written and not yet flushed
    outFlushed,      \* sys.stdout: characters delivered to the consumer
    errBuf,          \* the io.StringIO bound to sys.stderr at line 8
    realStderr,      \* file descriptor 2 of the process
    calls,           \* history: arguments of converter.convert, in order
    cur,             \* history: the iteration in progress
    outcome,         \* history: one record per line whose handling ended
    outAtRead,       \* history: stdout when the current line was read
    bufOwner         \* history: lines owning characters of outBuf

vars == << pc, importable, installInvoked, sys_stderr, environ, converter,
           stdin, pos, line, file_path, result, e, outBuf, outFlushed,
           errBuf, realStderr, calls, cur, outcome, outAtRead, bufOwner >>

envVars  == << importable, stdin, environ >>
loopVars == << pos, line, file_path, result >>
histVars == << calls, cur, outcome, outAtRead, bufOwner >>

\* ------------------------------------------------------------- helpers
\* Everything the program has written to sys.stdout, flushed or not.
Stdout == outFlushed \o outBuf

RECURSIVE lstrip(_)
lstrip(s) ==
    IF s # <<>> /\ Head(s) \in Whitespace THEN lstrip(Tail(s)) ELSE s

RECURSIVE rstrip(_)
rstrip(s) ==
    IF s # <<>> /\ s[Len(s)] \in Whitespace
    THEN rstrip(SubSeq(s, 1, Len(s) - 1))
    ELSE s

\* Variant: only the trailing whitespace is removed (str.rstrip).
strip_rstrip_only(s) == rstrip(s)

\* str.strip()
strip(s) == lstrip(rstrip(s))

\* Variant: no except clause matches.
caught_nothing(exc) == FALSE

\* `except Exception as e`
caught(exc) == exc \in ExceptionSubclasses

\* The f-string of the handler: the text names the path and the exception.
ErrorMessage(path, exc) == [text |-> "Error processing", path |-> path, exc |-> exc]
Traceback(exc) == [text |-> "Traceback", path |-> Unbound, exc |-> exc]
InstallNotice ==
    [text |-> "markitdown module not found. Installing...",
     path |-> Unbound, exc |-> NoValue]

NoIteration ==
    [conv |-> NoValue, text |-> <<>>, written |-> <<>>, error |-> FALSE]

\* An exception nobody catches: the interpreter prints the traceback to
\* whatever sys.stderr is bound to, flushes sys.stdout and exits non-zero.
Uncaught(exc) ==
    /\ pc' = "crashed"
    /\ e' = exc
    /\ IF sys_stderr = "StringIO"
       THEN errBuf' = Append(errBuf, Traceback(exc)) /\ UNCHANGED realStderr
       ELSE realStderr' = Append(realStderr, Traceback(exc)) /\ UNCHANGED errBuf
    /\ outFlushed' = outFlushed \o outBuf
    /\ outBuf' = <<>>
    /\ bufOwner' = {}

\* An exception raised inside the try block.
RaiseInTry(exc) ==
    IF caught(exc)
    THEN /\ pc' = "except"
         /\ e' = exc
         /\ UNCHANGED << outBuf, outFlushed, errBuf, realStderr, bufOwner >>
    ELSE Uncaught(exc)

\* --------------------------------------------------------------- Init
Init ==
    /\ pc = "import_from"
    /\ importable \in BOOLEAN
    /\ installInvoked = FALSE
    /\ sys_stderr = "real"
    /\ environ = NoValue
    /\ converter = 0
    /\ stdin \in UNION { [1..n -> Lines] : n \in 0..MaxLines }
    /\ \A i \in 1..(Len(stdin) - 1) : stdin[i] \in TerminatedLines
    /\ pos = 0
    /\ line = Unbound
    /\ file_path = Unbound
    /\ result = Unbound
    /\ e = NoValue
    /\ outBuf = <<>>
    /\ outFlushed = <<>>
    /\ errBuf = <<>>
    /\ realStderr = <<>>
    /\ calls = <<>>
    /\ cur = NoIteration
    /\ outcome = <<>>
    /\ outAtRead = <<>>
    /\ bufOwner = {}

\* ------------------------------------------------------------- actions
\* line 1: from markitdown import MarkItDown
ImportFrom ==
    /\ pc = "import_from"
    /\ IF importable
       THEN /\ pc' = "silence"
            /\ UNCHANGED << e, outBuf, outFlushed, errBuf, realStderr, bufOwner >>
       ELSE Uncaught("ImportError")
    /\ UNCHANGED << installInvoked, sys_stderr, converter, envVars, loopVars,
                    calls, cur, outcome, outAtRead >>

\* lines 8-9: sys.stderr = io.StringIO(); os.environ[...] = "ignore"
Silence ==
    /\ pc = "silence"
    /\ sys_stderr' = "StringIO"
    /\ environ' = "ignore"
    /\ pc' = "bootstrap"
    /\ UNCHANGED << importable, stdin, installInvoked, converter, loopVars, e,
                    outBuf, outFlushed, errBuf, realStderr, histVars >>

\* lines 11-16: try: import markitdown / except ImportError: install
Bootstrap ==
    /\ pc = "bootstrap"
    /\ IF importable
       THEN /\ pc' = "construct"
            /\ UNCHANGED << installInvoked, e, outBuf, outFlushed, errBuf,
                            realStderr, bufOwner >>
       ELSE /\ installInvoked' = TRUE
            /\ \E ok \in BOOLEAN :
                 IF ok
                 THEN /\ pc' = "construct"
                      /\ errBuf' = Append(errBuf, InstallNotice)
                      /\ UNCHANGED << e, outBuf, outFlushed, realStderr, bufOwner >>
                 ELSE /\ pc' = "crashed"
                      /\ e' = "CalledProcessError"
                      /\ errBuf' = errBuf \o << InstallNotice,
                                                Traceback("CalledProcessError") >>
                      /\ UNCHANGED << outBuf, outFlushed, realStderr, bufOwner >>
    /\ UNCHANGED << sys_stderr, converter, envVars, loopVars,
                    calls, cur, outcome, outAtRead >>

\* line 18: converter = MarkItDown()
Construct ==
    /\ pc = "construct"
    /\ converter' = converter + 1
    /\ pc' = "for"
    /\ UNCHANGED << installInvoked, sys_stderr, envVars, loopVars, e, outBuf,
                    outFlushed, errBuf, realStderr, histVars >>

\* line 19: for line in sys.stdin -- the next line
ReadLine ==
    /\ pc = "for"
    /\ pos < Len(stdin)
    /\ pos' = pos + 1
    /\ line' = stdin[pos + 1]
    /\ outAtRead' = Stdout
    /\ cur' = NoIteration
    /\ pc' = "convert"
    /\ UNCHANGED << installInvoked, sys_stderr, converter, envVars, file_path,
                    result, e, outBuf, outFlushed, errBuf, realStderr, calls,
                    outcome, bufOwner >>

\* line 19: for line in sys.stdin -- end of input; the script ends and the
\* interpreter flushes sys.stdout on the way out.
EndOfInput ==
    /\ pc = "for"
    /\ pos = Len(stdin)
    /\ pc' = "done"
    /\ outFlushed' = outFlushed \o outBuf
    /\ outBuf' = <<>>
    /\ bufOwner' = {}
    /\ UNCHANGED << installInvoked, sys_stderr, converter, envVars, loopVars, e,
                    errBuf, realStderr, calls, cur, outcome, outAtRead >>

\* lines 20-22: file_path = line.strip(); result = converter.convert(file_path)
Convert ==
    /\ pc = "convert"
    /\ file_path' = strip(line)
    /\ calls' = Append(calls, strip(line))
    /\ \/ \E t \in Texts :
            /\ result' = t
            /\ cur' = [cur EXCEPT !.conv = "ok", !.text = t]
            /\ pc' = "write_text"
            /\ UNCHANGED << e, outBuf, outFlushed, errBuf, realStderr, bufOwner >>
       \/ \E exc \in ConvertRaises :
            /\ cur' = [cur EXCEPT !.conv = "raised"]
            /\ RaiseInTry(exc)
            /\ UNCHANGED result
    /\ UNCHANGED << installInvoked, sys_stderr, converter, envVars, pos, line,
                    outcome, outAtRead >>

\* line 23: sys.stdout.write(result.text_content)
WriteText ==
    /\ pc = "write_text"
    /\ \/ /\ outBuf' = outBuf \o result
          /\ bufOwner' = IF result = <<>> THEN bufOwner ELSE bufOwner \cup {pos}
          /\ cur' = [cur EXCEPT !.written = @ \o result]
          /\ pc' = "write_nul"
          /\ UNCHANGED << e, outFlushed, errBuf, realStderr >>
       \/ /\ RaiseInTry(WriteRaises)
          /\ UNCHANGED cur
    /\ UNCHANGED << installInvoked, sys_stderr, converter, envVars, loopVars,
                    calls, outcome, outAtRead >>

\* line 24: sys.stdout.write("\0")
WriteNul ==
    /\ pc = "write_nul"
    /\ \/ /\ outBuf' = Append(outBuf, NUL)
          /\ bufOwner' = bufOwner \cup {pos}
          /\ cur' = [cur EXCEPT !.written = Append(@, NUL)]
          /\ pc' = "flush"
          /\ UNCHANGED << e, outFlushed, errBuf, realStderr >>
       \/ /\ RaiseInTry(WriteRaises)
          /\ UNCHANGED cur
    /\ UNCHANGED << installInvoked, sys_stderr, converter, envVars, loopVars,
                    calls, outcome, outAtRead >>

\* Variant: the try block ends without flushing.
Flush_forgotten ==
    /\ pc = "flush"
    /\ outcome' = Append(outcome, cur)
    /\ pc' = "for"
    /\ UNCHANGED << installInvoked, sys_stderr, converter, envVars, loopVars, e,
                    outBuf, outFlushed, errBuf, realStderr, calls, cur,
                    outAtRead, bufOwner >>

\* line 25: sys.stdout.flush(); the try block ends, back to the loop head
Flush ==
    /\ pc = "flush"
    /\ \/ /\ outFlushed' = outFlushed \o outBuf
          /\ outBuf' = <<>>
          /\ bufOwner' = {}
          /\ outcome' = Append(outcome, cur)
          /\ pc' = "for"
          /\ UNCHANGED << e, errBuf, realStderr >>
       \/ /\ RaiseInTry(WriteRaises)
          /\ UNCHANGED outcome
    /\ UNCHANGED << installInvoked, sys_stderr, converter, envVars, loopVars,
                    calls, cur, outAtRead >>

\* Variant: the handler reports on sys.stdout.
HandleException_to_stdout ==
    /\ pc = "except"
    /\ outBuf' = outBuf \o << "E" >>
    /\ outcome' = Append(outcome, [cur EXCEPT !.error = TRUE])
    /\ pc' = "for"
    /\ UNCHANGED << installInvoked, sys_stderr, converter, envVars, loopVars, e,
                    outFlushed, errBuf, realStderr, calls, cur, outAtRead,
                    bufOwner >>

\* lines 26-28: except Exception as e: print(f"Error processing ...",
\*              file=sys.stderr, flush=True)
HandleException ==
    /\ pc = "except"
    /\ IF sys_stderr = "StringIO"
       THEN errBuf' = Append(errBuf, ErrorMessage(file_path, e))
            /\ UNCHANGED realStderr
       ELSE realStderr' = Append(realStderr, ErrorMessage(file_path, e))
            /\ UNCHANGED errBuf
    /\ outcome' = Append(outcome, [cur EXCEPT !.error = TRUE])
    /\ pc' = "for"
    /\ UNCHANGED << installInvoked, sys_stderr, converter, envVars, loopVars, e,
                    outBuf, outFlushed, calls, cur, outAtRead, bufOwner >>

Next ==
    \/ ImportFrom
    \/ Silence
    \/ Bootstrap
    \/ Construct
    \/ ReadLine
    \/ EndOfInput
    \/ Convert
    \/ WriteText
    \/ WriteNul
    \/ Flush
    \/ HandleException

Spec == Init /\ [][Next]_vars

\* The interpreter runs one thread and every statement returns: a step that
\* can be taken is taken.
FairSpec == Spec /\ WF_vars(Next)

\* ------------------------------------------------ operators of the claims
Handled == 1..Len(outcome)

\* The lines whose conversion returned a result.
RECURSIVE ExpectedBlobs(_)
ExpectedBlobs(os) ==
    IF os = <<>> THEN <<>>
    ELSE (IF Head(os).conv = "ok" THEN Head(os).text \o << NUL >> ELSE <<>>)
         \o ExpectedBlobs(Tail(os))

RECURSIVE ExpectedTexts(_)
ExpectedTexts(os) ==
    IF os = <<>> THEN <<>>
    ELSE (IF Head(os).conv = "ok" THEN << Head(os).text >> ELSE <<>>)
         \o ExpectedTexts(Tail(os))

\* What a consumer gets by cutting the stream at every NUL: the records
\* before each NUL, and the unterminated rest when there is one.
RECURSIVE SplitFrom(_, _)
SplitFrom(s, acc) ==
    IF s = <<>> THEN (IF acc = <<>> THEN <<>> ELSE << acc >>)
    ELSE IF Head(s) = NUL THEN << acc >> \o SplitFrom(Tail(s), <<>>)
    ELSE SplitFrom(Tail(s), Append(acc, Head(s)))

SplitOnNul(s) == SplitFrom(s, <<>>)

CountNul(s) == Cardinality({ i \in 1..Len(s) : s[i] = NUL })

\* p is l without its leading and trailing whitespace, said without strip.
IsStripped(p, l) ==
    \E i \in 0..Len(l) : \E j \in 0..(Len(l) - i) :
        /\ p = SubSeq(l, i + 1, Len(l) - j)
        /\ \A k \in 1..i : l[k] \in Whitespace
        /\ \A k \in (Len(l) - j + 1)..Len(l) : l[k] \in Whitespace
        /\ p # <<>> => (p[1] \notin Whitespace /\ p[Len(p)] \notin Whitespace)

Terminated == pc \in {"done", "crashed"}

\* ---------------------------------------------------------------- C1
\* C1: at end of input standard output is exactly, in input order, the
\* converted text followed by one NUL for every line whose conversion
\* succeeded.
C1_StdoutIsBlobsOfSuccessfulLines ==
    pc = "done" => Stdout = ExpectedBlobs(outcome)

\* ---------------------------------------------------------------- C2
\* C2: for every handled line whose conversion raised, the real standard
\* error of the process holds a message naming that line's trimmed path.
C2_ErrorReachesRealStderr ==
    \A i \in Handled :
        outcome[i].conv = "raised" =>
            \E j \in 1..Len(realStderr) : realStderr[j].path = calls[i]

\* ---------------------------------------------------------------- C3
\* C3: from the reading of a line whose conversion raises until the next
\* line is read, standard output is what it was when the line was read.
C3_StdoutUnchangedOnFailure ==
    cur.conv = "raised" => (Stdout = outAtRead /\ cur.written = <<>>)

C3_Witness ==
    /\ pc = "for"
    /\ pos = 2
    /\ cur.conv = "raised"
    /\ outcome[2].error
    /\ outAtRead # <<>>

\* ---------------------------------------------------------------- C4
\* C4 as stated: whatever the conversion of a line raises, the run ends
\* only after every line of the input has been attempted.
C4_EveryLineAttempted ==
    (Terminated /\ converter = 1) => Len(calls) = Len(stdin)

C4_LoopSafe ==
    /\ (pc = "crashed" /\ converter = 1) => e \notin ExceptionSubclasses
    /\ pc = "done" => (pos = Len(stdin) /\ Len(calls) = Len(stdin))

\* C4 amended: an exception below Exception raised while a line is handled
\* never ends the run, and once the converter exists the run reaches end of
\* input with every line attempted unless an exception that is not below
\* Exception (KeyboardInterrupt, SystemExit) ends it.
C4_FailureDoesNotEndRun ==
    /\ []C4_LoopSafe
    /\ (converter = 1) ~> (pc = "done" \/ (pc = "crashed" /\ e = "KeyboardInterrupt"))

C4_Witness ==
    /\ pc = "done"
    /\ Len(stdin) = 2
    /\ outcome[1].conv = "raised"
    /\ outcome[2].conv = "ok"

\* ---------------------------------------------------------------- C5
\* C5: when the loop has handled k lines, every one of them gave either a
\* whole blob on standard output or an error message, never both and never
\* a part of a blob beside an error message.
C5_OneOutputUnitPerLine ==
    pc = "for" =>
        /\ Len(outcome) = pos
        /\ \A i \in Handled :
              IF outcome[i].error
              THEN outcome[i].written = <<>>
              ELSE outcome[i].written = outcome[i].text \o << NUL >>

\* ---------------------------------------------------------------- C6
\* C6: when the library is missing, the process does not fail before the
\* installer has been invoked.
C6_InstallBeforeFailure ==
    (~importable /\ pc = "crashed") => installInvoked

\* ---------------------------------------------------------------- C8
\* C8: whenever the loop is at its head or has just read a line, no
\* character written for a line that was handled without error is still in
\* the buffer of standard output.
C8_FlushedPerItem ==
    pc \in {"for", "convert", "done"} =>
        \A i \in Handled : ~outcome[i].error => i \notin bufOwner

C8_Witness ==
    /\ pc = "convert"
    /\ pos = 2
    /\ ~outcome[1].error
    /\ outcome[1].text # <<>>
    /\ outFlushed = outcome[1].text \o << NUL >>

\* ---------------------------------------------------------------- C9
\* C9: in a run where no write fails, cutting the whole of standard output
\* at every NUL gives back exactly the converted texts of the successful
\* lines, and there are as many NULs as successful conversions.
C9_NulIsSoundDelimiter ==
    (pc = "done" /\ \A i \in Handled : outcome[i].conv = "ok" => ~outcome[i].error) =>
        /\ SplitOnNul(Stdout) = ExpectedTexts(outcome)
        /\ CountNul(Stdout) = Len(ExpectedTexts(outcome))

\* ---------------------------------------------------------------- C10
\* C10: one converter; convert is called once for each line read, in input
\* order, with the line stripped of surrounding whitespace (the empty path
\* for a blank line), and a line is read only when the handling of every
\* earlier line has ended.
C10_ConvertOncePerLineInOrder ==
    /\ converter <= 1
    /\ calls # <<>> => converter = 1
    /\ Len(calls) = (IF pc = "convert" THEN pos - 1 ELSE pos)
    /\ \A i \in 1..Len(calls) : IsStripped(calls[i], stdin[i])
    /\ pc = "convert" => Len(outcome) = pos - 1
    /\ pc = "for" => Len(outcome) = pos

C10_Witness ==
    /\ pc = "for"
    /\ pos = 2
    /\ stdin[1] = << SP, "b", SP, NL >>
    /\ stdin[2] = << SP, NL >>
    /\ calls = << << "b" >>, <<>> >>

====
